---- MODULE Spec2Model ----
(***************************************************************************)
(* A model of fingerprinter-js: the Fingerprint aggregator (collection of  *)
(* the registered collectors, merge with custom data, confidence, entropy, *)
(* serialization and digest) and the SuspectAnalyzer rule battery.         *)
(*                                                                         *)
(* JavaScript strings are TLA+ strings; the other JavaScript values are    *)
(* records tagged by "type".  Objects keep their properties as a sequence  *)
(* of [k, v] records, in insertion order, because JSON.stringify and       *)
(* Object.keys observe that order.                                         *)
(***************************************************************************)
EXTENDS Integers, Sequences, FiniteSets, TLC

(***************************************************************************)
(* JavaScript values                                                       *)
(***************************************************************************)
Str(s) == [type |-> "string", s |-> s]
Num(n) == [type |-> "number", n |-> n]
\* A number too large for the integers of the model checker: millions * 10^6 + rest
BigNum(millions, rest) == [type |-> "number", big |-> <<millions, rest>>]
IsBig(v) == "big" \in DOMAIN v
Bool(b) == [type |-> "boolean", b |-> b]
BigInt(n) == [type |-> "bigint", n |-> n]
Null == [type |-> "null"]
Undefined == [type |-> "undefined"]
Obj(props) == [type |-> "object", props |-> props]
Arr(items) == [type |-> "array", items |-> items]
P(k, v) == [k |-> k, v |-> v]

\* typeof v
TypeOf(v) ==
  IF v.type \in {"object", "array", "null"} THEN "object" ELSE v.type

\* ToBoolean(v): the test of `if (v)`, `!v`, `v && ...`, `v || ...`
Truthy(v) ==
  CASE v.type = "string" -> v.s # ""
    [] v.type = "number" -> IsBig(v) \/ v.n # 0
    [] v.type = "bigint" -> v.n # 0
    [] v.type = "boolean" -> v.b
    [] v.type \in {"null", "undefined"} -> FALSE
    [] OTHER -> TRUE

\* `key in v`, for an object or an array v and a non-index key
HasKey(v, key) ==
  /\ v.type = "object"
  /\ \E i \in 1..Len(v.props) : v.props[i].k = key

\* v[key] for a value that is neither null nor undefined and a non-index key
Get(v, key) ==
  IF HasKey(v, key)
  THEN v.props[CHOOSE i \in 1..Len(v.props) : v.props[i].k = key].v
  ELSE Undefined

(***************************************************************************)
(* Characters and strings                                                  *)
(***************************************************************************)
Ascii ==
  <<" ", "!", "\"", "#", "$", "%", "&", "'", "(", ")", "*", "+", ",", "-",
    ".", "/", "0", "1", "2", "3", "4", "5", "6", "7", "8", "9", ":", ";",
    "<", "=", ">", "?", "@", "A", "B", "C", "D", "E", "F", "G", "H", "I",
    "J", "K", "L", "M", "N", "O", "P", "Q", "R", "S", "T", "U", "V", "W",
    "X", "Y", "Z", "[", "(backslash)", "]", "^", "_", "(backtick)", "a", "b", "c", "d", "e",
    "f", "g", "h", "i", "j", "k", "l", "m", "n", "o", "p", "q", "r", "s",
    "t", "u", "v", "w", "x", "y", "z", "{", "|", "}", "~">>

\* str.charCodeAt(i) for the printable ASCII characters (codes 32..126); no
\* string of the model holds a backslash or a backtick, whose places in Ascii
\* are kept by names
CodeTable ==
  [c \in {Ascii[i] : i \in 1..Len(Ascii)} |->
     31 + (CHOOSE i \in 1..Len(Ascii) : Ascii[i] = c)]

CharAt(s, i) == SubSeq(s, i, i)
CharCodeAt(s, i) == CodeTable[CharAt(s, i)]

\* str.toLowerCase()
LowerChar(c) ==
  LET code == CodeTable[c]
  IN  IF code >= 65 /\ code <= 90 THEN Ascii[code + 32 - 31] ELSE c

\* (computed by halves, which keeps the recursion shallow)
RECURSIVE ToLowerCase(_)
ToLowerCase(s) ==
  IF s = "" THEN ""
  ELSE IF Len(s) = 1 THEN LowerChar(s)
  ELSE ToLowerCase(SubSeq(s, 1, Len(s) \div 2))
         \o ToLowerCase(SubSeq(s, Len(s) \div 2 + 1, Len(s)))

\* str.includes(sub)
Includes(s, sub) ==
  \E i \in 1..(Len(s) - Len(sub) + 1) : SubSeq(s, i, i + Len(sub) - 1) = sub

\* n.toString(10) of an integer
RECURSIVE Digits(_)
Digits(n) ==
  IF n < 0 THEN "-" \o Digits(-n)
  ELSE IF n < 10 THEN Ascii[n + 17]
  ELSE Digits(n \div 10) \o Ascii[(n % 10) + 17]

\* s.padStart(len, "0")
RECURSIVE PadStart0(_, _)
PadStart0(s, len) == IF Len(s) >= len THEN s ELSE PadStart0("0" \o s, len)

\* String(v) of a number
NumberToString(v) ==
  IF IsBig(v) THEN Digits(v.big[1]) \o PadStart0(Digits(v.big[2]), 6)
  ELSE Digits(v.n)

(***************************************************************************)
(* JSON.stringify as safeStringify calls it                                *)
(*                                                                          *)
(* The strings of the model hold no character that JSON escapes.           *)
(***************************************************************************)
\* JSON.stringify raises a TypeError on a BigInt anywhere in the value
RECURSIVE HasBigInt(_)
HasBigInt(v) ==
  CASE v.type = "bigint" -> TRUE
    [] v.type = "object" -> \E i \in 1..Len(v.props) : HasBigInt(v.props[i].v)
    [] v.type = "array" -> \E i \in 1..Len(v.items) : HasBigInt(v.items[i])
    [] OTHER -> FALSE

RECURSIVE JSONStringify(_)
RECURSIVE JSONProps(_, _)
RECURSIVE JSONItems(_, _)

\* The properties of an object from index i on; a property whose value is
\* undefined is left out.  `first` tells whether a comma is due.
JSONProps(props, first) ==
  IF props = <<>> THEN ""
  ELSE IF Head(props).v.type = "undefined" THEN JSONProps(Tail(props), first)
  ELSE (IF first THEN "" ELSE ",")
         \o "\"" \o Head(props).k \o "\"" \o ":" \o JSONStringify(Head(props).v)
         \o JSONProps(Tail(props), FALSE)

\* The items of an array; an undefined item is written null.
JSONItems(items, first) ==
  IF items = <<>> THEN ""
  ELSE (IF first THEN "" ELSE ",")
         \o (IF Head(items).type = "undefined" THEN "null"
             ELSE JSONStringify(Head(items)))
         \o JSONItems(Tail(items), FALSE)

JSONStringify(v) ==
  CASE v.type = "string" -> "\"" \o v.s \o "\""
    [] v.type = "number" -> NumberToString(v)
    [] v.type = "boolean" -> IF v.b THEN "true" ELSE "false"
    [] v.type = "null" -> "null"
    [] v.type = "object" -> "{" \o JSONProps(v.props, TRUE) \o "}"
    [] v.type = "array" -> "[" \o JSONItems(v.items, TRUE) \o "]"

\* safeStringify(obj): no object instance occurs twice in the values of the
\* model, so the seen-set of the replacer never answers with the Circular
\* marker.
safeStringifyRaises(obj) == HasBigInt(obj)
safeStringify(obj) == JSONStringify(obj)

(***************************************************************************)
(* 32-bit integers.  A 32-bit word is the pair <<hi, lo>> of its 16-bit     *)
(* halves, so that no intermediate result leaves the range of TLC:         *)
(* the word w stands for the signed integer ToInt32(hi * 2^16 + lo).       *)
(***************************************************************************)
Half == 256 * 256

\* w << 5
ShiftLeft5(w) ==
  LET t == w[2] * 32
  IN  <<(w[1] * 32 + (t \div Half)) % Half, t % Half>>

\* ToInt32(a - b)
Sub32(a, b) ==
  LET borrow == IF a[2] < b[2] THEN 1 ELSE 0
  IN  <<(a[1] - b[1] - borrow + Half) % Half, (a[2] - b[2] + Half) % Half>>

\* ToInt32(a + c) for a character code c
Add32(a, c) ==
  LET t == a[2] + c
  IN  <<(a[1] + (t \div Half)) % Half, t % Half>>

\* Math.abs of the signed integer a word stands for; the result is the
\* unsigned integer hi * 2^16 + lo (2^31 for the most negative word)
Abs32(w) ==
  IF w[1] < Half \div 2 THEN w
  ELSE IF w[2] = 0 THEN <<Half - w[1], 0>>
  ELSE <<Half - 1 - w[1], Half - w[2]>>

HexDigit(d) == IF d < 10 THEN Ascii[d + 17] ELSE Ascii[d - 10 + 66]

\* n.toString(16) of 0 <= n < 2^16
RECURSIVE Hex(_)
Hex(n) == IF n < 16 THEN HexDigit(n) ELSE Hex(n \div 16) \o HexDigit(n % 16)

\* n.toString(16) of the unsigned integer a pair stands for
ToString16(w) ==
  IF w[1] = 0 THEN Hex(w[2]) ELSE Hex(w[1]) \o PadStart0(Hex(w[2]), 4)

(***************************************************************************)
(* utils.ts: simpleHash and sha256                                         *)
(***************************************************************************)
\* One turn of the loop of simpleHash:
\*   hash = (hash << 5) - hash + char; hash = hash & hash
HashStep(hash, char) == Add32(Sub32(ShiftLeft5(hash), hash), char)

\* The turns i = lo..hi of the loop of simpleHash, in order.  (The range is
\* walked by halves, the left half first, which keeps the recursion shallow;
\* the test of left[1] makes TLC finish the left half before the
\* right one starts.)
RECURSIVE HashLoop(_, _, _, _)
HashLoop(str, lo, hi, hash) ==
  IF lo > hi THEN hash
  ELSE IF lo = hi THEN HashStep(hash, CharCodeAt(str, lo))
  ELSE LET mid == (lo + hi) \div 2
           left == HashLoop(str, lo, mid, hash)
       IN  IF left[1] >= 0 THEN HashLoop(str, mid + 1, hi, left) ELSE left

\* simpleHash(str): a non-negative number, as a pair
simpleHash(str) ==
  IF Len(str) = 0 THEN <<0, 0>> ELSE Abs32(HashLoop(str, 1, Len(str), <<0, 0>>))

\* new TextEncoder().encode(message): the bytes of an ASCII message
TextEncode(message) == [i \in 1..Len(message) |-> CharCodeAt(message, i)]

\* crypto.subtle.digest("SHA-256", bytes) is the primitive of the host; it
\* is not computed here.  In its place stands a fixed function from byte
\* sequences to 32 bytes (two position-weighted sums spread over 32 bytes):
\* the model relies on the digest being a function of the bytes and on its
\* length, not on its values.
RECURSIVE WeightedSum(_, _, _, _)
WeightedSum(bytes, lo, hi, acc) ==
  IF lo > hi THEN acc
  ELSE IF lo = hi
  THEN <<(acc[1] + bytes[lo]) % 251, (acc[2] + lo * bytes[lo]) % 65521>>
  ELSE LET mid == (lo + hi) \div 2
           left == WeightedSum(bytes, lo, mid, acc)
       IN  IF left[1] >= 0 THEN WeightedSum(bytes, mid + 1, hi, left) ELSE left

SubtleDigest(bytes) ==
  LET acc == WeightedSum(bytes, 1, Len(bytes), <<1, 0>>)
  IN  [i \in 1..32 |-> (acc[2] + i * acc[1] + i * i) % 256]

\* hashArray.map((b) => b.toString(16).padStart(2, "0")).join("")
RECURSIVE HexJoin(_, _)
HexJoin(bytes, i) ==
  IF i > Len(bytes) THEN ""
  ELSE PadStart0(Hex(bytes[i]), 2) \o HexJoin(bytes, i + 1)

\* sha256(message) rejects when the digest promise of the host rejects
sha256Raises(message, crypto) == crypto = "rejects"

\* sha256(message) when it resolves
sha256(message, crypto) ==
  IF crypto = "subtle"
  THEN HexJoin(SubtleDigest(TextEncode(message)), 1)
  ELSE ToString16(simpleHash(message))

(***************************************************************************)
(* The host: what the ambient globals window, document and navigator hold  *)
(* where the library runs.  truthy is the set of ambient properties whose  *)
(* value is truthy ("navigator.webdriver" stands for the value true);      *)
(* getter is the text of Navigator.prototype's webdriver getter ("" when   *)
(* the property has no getter) and getterThrows tells that reading the     *)
(* descriptor raises.                                                      *)
(***************************************************************************)
Host(window, document, truthy, outerWidth, outerHeight, getter, getterThrows, crypto) ==
  [window |-> window, document |-> document, truthy |-> truthy,
   outerWidth |-> outerWidth, outerHeight |-> outerHeight,
   getter |-> getter, getterThrows |-> getterThrows, crypto |-> crypto]

\* utils.isBrowser
isBrowser_WindowOnly(host) == host.window

isBrowser(host) == host.window /\ host.document

(***************************************************************************)
(* SuspectAnalyzer: the detection methods.  components is an object.  A    *)
(* method m that can raise a TypeError has a companion mRaises; m gives    *)
(* the returned value of a call that does not raise.                       *)
(***************************************************************************)
\* v || ""
OrEmpty(v) == IF Truthy(v) THEN v ELSE Str("")

\* const ua = (components.userAgent as string) || ""
ua(components) == OrEmpty(Get(components, "userAgent"))

\* v.includes(p): String.prototype.includes on a string, Array.prototype.includes
\* on an array; any other value has no includes method and the call raises
MethodIncludes(v, p) ==
  CASE v.type = "string" -> Includes(v.s, p)
    [] v.type = "array" -> \E i \in 1..Len(v.items) : v.items[i] = Str(p)
    [] OTHER -> FALSE

IncludesRaises(v) == v.type \notin {"string", "array"}

\* `${v}` for the values a template literal accepts
RECURSIVE TemplateString(_)
TemplateString(v) ==
  CASE v.type = "string" -> v.s
    [] v.type = "number" -> NumberToString(v)
    [] v.type = "boolean" -> IF v.b THEN "true" ELSE "false"
    [] v.type = "null" -> "null"
    [] v.type = "undefined" -> "undefined"
    [] v.type = "array" ->
         IF Len(v.items) = 0 THEN ""
         ELSE IF Len(v.items) = 1 THEN TemplateString(v.items[1])
         ELSE TemplateString(v.items[1]) \o "," \o TemplateString(Arr(Tail(v.items)))
    [] OTHER -> "[object Object]"

hasWebDriver(host) ==
  /\ host.window
  /\ \/ "navigator.webdriver" \in host.truthy
     \/ "window.callPhantom" \in host.truthy
     \/ "window._phantom" \in host.truthy

isHeadlessRaises(components) == IncludesRaises(ua(components))

isHeadless(components, host) ==
  \/ MethodIncludes(ua(components), "HeadlessChrome")
  \/ MethodIncludes(ua(components), "PhantomJS")
  \/ MethodIncludes(ua(components), "Headless")
  \/ /\ host.window
     /\ \/ host.outerHeight = 0
        \/ host.outerWidth = 0
        \/ /\ MethodIncludes(ua(components), "Chrome")
           /\ "window.chrome" \notin host.truthy

hasPhantomSignaturesRaises(components, host) ==
  host.window /\ IncludesRaises(ua(components))

hasPhantomSignatures(components, host) ==
  /\ host.window
  /\ \/ MethodIncludes(ua(components), "PhantomJS")
     \/ "window._phantom" \in host.truthy
     \/ "window.callPhantom" \in host.truthy
     \/ "window.__phantomas" \in host.truthy

\* window.document.__selenium_unwrapped is read once window.selenium and
\* window.webdriver are falsy, and raises when window.document is undefined
hasSeleniumSignaturesRaises(host) ==
  /\ host.window
  /\ ~host.document
  /\ "window.selenium" \notin host.truthy
  /\ "window.webdriver" \notin host.truthy

hasSeleniumSignatures(host) ==
  /\ host.window
  /\ \/ "window.selenium" \in host.truthy
     \/ "window.webdriver" \in host.truthy
     \/ host.truthy \cap
          {"document.__selenium_unwrapped", "document.__webdriver_evaluate",
           "document.__driver_evaluate", "document.__webdriver_script_function",
           "document.__webdriver_script_func", "document.__webdriver_script_fn",
           "document.__fxdriver_evaluate", "document.__driver_unwrapped",
           "document.__webdriver_unwrapped",
           "document.$cdc_asdjflasutopfhvcZLmcfl_",
           "document.$chrome_asyncScriptInfo"} # {}

hasPuppeteerSignatures(host) ==
  /\ host.window
  /\ \/ "window.__puppeteer_evaluation_script__" \in host.truthy
     \/ "navigator.webdriver" \in host.truthy
     \/ "window.puppeteerBinding" \in host.truthy

hasPlaywrightSignatures(host) ==
  /\ host.window
  /\ \/ "window.__playwright" \in host.truthy
     \/ "window.__pw_manual" \in host.truthy
     \/ "window._playwright" \in host.truthy

hasCDPArtifacts(host) ==
  /\ host.window
  /\ \/ "window.__cdp__" \in host.truthy
     \/ "window.cdc_adoQpoasnfa76pfcZLmcfl_Array" \in host.truthy
     \/ "window.cdc_adoQpoasnfa76pfcZLmcfl_Promise" \in host.truthy
     \/ "window.cdc_adoQpoasnfa76pfcZLmcfl_Symbol" \in host.truthy

suspiciousCombinations ==
  <<[tz |-> "America/New_York", lang |-> "zh-CN"],
    [tz |-> "Europe/Paris", lang |-> "ja-JP"],
    [tz |-> "Asia/Tokyo", lang |-> "es-ES"],
    [tz |-> "Europe/London", lang |-> "zh-CN"],
    [tz |-> "America/Los_Angeles", lang |-> "ru-RU"]>>

\* language.some((l) => l.includes(lang)): "true", "false" or "raise", as the
\* first item that matches or has no includes method decides
LanguageSome(items, lang) ==
  LET stops == {i \in 1..Len(items) :
                  IncludesRaises(items[i]) \/ MethodIncludes(items[i], lang)}
      first == CHOOSE i \in stops : \A j \in stops : i <= j
  IN  IF stops = {} THEN "false"
      ELSE IF IncludesRaises(items[first]) THEN "raise" ELSE "true"

\* The callback of suspiciousCombinations.some on one combination
ComboOutcome(timezone, language, combo) ==
  IF IncludesRaises(timezone) THEN "raise"
  ELSE IF ~MethodIncludes(timezone, combo.tz) THEN "false"
  ELSE IF language.type # "array" THEN "false"
  ELSE LanguageSome(language.items, combo.lang)

\* suspiciousCombinations.some(...): the first combination whose callback
\* does not return false decides
CombinationsSome(timezone, language) ==
  LET stops == {k \in 1..Len(suspiciousCombinations) :
                  ComboOutcome(timezone, language, suspiciousCombinations[k]) # "false"}
      first == CHOOSE k \in stops : \A j \in stops : k <= j
  IN  IF stops = {} THEN "false"
      ELSE ComboOutcome(timezone, language, suspiciousCombinations[first])

TimezoneLanguageOutcome(components) ==
  LET timezone == Get(components, "timezone")
      language == Get(components, "language")
  IN  IF ~Truthy(timezone) \/ ~Truthy(language) THEN "false"
      ELSE CombinationsSome(timezone, language)

hasTimezoneLanguageInconsistencyRaises(components) ==
  TimezoneLanguageOutcome(components) = "raise"

hasTimezoneLanguageInconsistency(components) ==
  TimezoneLanguageOutcome(components) = "true"

hasScreenInconsistency(components) ==
  LET screen == Get(components, "screen")
      resolution == TemplateString(Get(screen, "width")) \o "x"
                      \o TemplateString(Get(screen, "height"))
  IN  /\ Truthy(screen)
      /\ resolution \in {"800x600", "1024x768"}
      /\ Get(screen, "colorDepth") = Num(24)

hasGenericCanvas(components) ==
  LET canvas == Get(components, "canvas")
  IN  /\ Truthy(canvas)
      /\ canvas.type = "string"
      /\ (Len(canvas.s) < 100 \/ canvas.s = "no-canvas")

\* platform.toLowerCase() raises on a platform that is no string
hasUAPlatformMismatchRaises(components) ==
  LET hardware == Get(components, "hardware")
  IN  /\ Truthy(hardware)
      /\ \/ IncludesRaises(ua(components))
         \/ /\ \/ MethodIncludes(ua(components), "Windows")
               \/ MethodIncludes(ua(components), "Macintosh")
            /\ OrEmpty(Get(hardware, "platform")).type # "string"

hasUAPlatformMismatch(components) ==
  LET hardware == Get(components, "hardware")
      platform == ToLowerCase(OrEmpty(Get(hardware, "platform")).s)
  IN  /\ Truthy(hardware)
      /\ \/ /\ MethodIncludes(ua(components), "Windows")
            /\ ~Includes(platform, "win")
         \/ /\ MethodIncludes(ua(components), "Macintosh")
            /\ ~Includes(platform, "mac")

\* cores and memory compared as numbers, null or undefined; memory < 0.25 on
\* an integer is memory <= 0
hasHardwareInconsistency(components) ==
  LET hardware == Get(components, "hardware")
      cores == Get(hardware, "hardwareConcurrency")
      memory == Get(hardware, "deviceMemory")
  IN  /\ Truthy(hardware)
      /\ \/ cores = Num(0)
         \/ (cores.type = "number" /\ (IsBig(cores) \/ cores.n > 128))
         \/ (memory.type = "number" /\ ~IsBig(memory) /\ 4 * memory.n < 1)

hasMissingAPIs(components) ==
  Cardinality({api \in {"userAgent", "language", "screen"} :
                 \/ ~Truthy(Get(components, api))
                 \/ /\ TypeOf(Get(components, api)) = "object"
                    /\ Truthy(Get(Get(components, api), "error"))}) > 1

hasTooManyErrors(components) ==
  Cardinality({i \in 1..Len(components.props) :
                 /\ Truthy(components.props[i].v)
                 /\ TypeOf(components.props[i].v) = "object"
                 /\ Truthy(Get(components.props[i].v, "error"))}) > 5

suspiciousPatterns ==
  {"HeadlessChrome", "PhantomJS", "bot", "crawler", "spider", "scraper",
   "python-requests", "curl", "wget", "node-fetch", "axios"}

\* ua.toLowerCase() raises on a user agent that is no string
hasSuspiciousUserAgentRaises(components) == ua(components).type # "string"

hasSuspiciousUserAgent(components) ==
  \E pattern \in suspiciousPatterns :
    Includes(ToLowerCase(ua(components).s), ToLowerCase(pattern))

hasTouchUAMismatchRaises(components) ==
  Truthy(Get(components, "touch")) /\ IncludesRaises(ua(components))

hasTouchUAMismatch(components) ==
  LET touch == Get(components, "touch")
  IN  /\ Truthy(touch)
      /\ \/ MethodIncludes(ua(components), "Mobile")
         \/ MethodIncludes(ua(components), "Android")
         \/ MethodIncludes(ua(components), "iPhone")
      /\ Get(touch, "maxTouchPoints") = Num(0)

isTooStable(components) ==
  Cardinality({i \in 1..Len(components.props) :
                 /\ Truthy(components.props[i].v)
                 /\ ~(/\ TypeOf(components.props[i].v) = "object"
                      /\ Truthy(Get(components.props[i].v, "error")))
                 /\ components.props[i].v # Str("unknown")})
    = Len(components.props)

botSignatures ==
  {"Googlebot", "Bingbot", "Slurp", "DuckDuckBot", "Baiduspider", "YandexBot",
   "facebookexternalhit", "Twitterbot", "LinkedInBot", "WhatsApp",
   "python-requests", "curl/", "wget", "Scrapy", "HttpClient"}

hasKnownBotSignatureRaises(components) == IncludesRaises(ua(components))

hasKnownBotSignature(components) ==
  \E signature \in botSignatures : MethodIncludes(ua(components), signature)

SoftwareRenderer(renderer) ==
  \/ MethodIncludes(renderer, "SwiftShader")
  \/ MethodIncludes(renderer, "llvmpipe")
  \/ MethodIncludes(renderer, "VMware")

hasUnusualWebGLVendorRaises(components) ==
  LET webgl == Get(components, "webgl")
      vendor == OrEmpty(Get(webgl, "vendor"))
      renderer == OrEmpty(Get(webgl, "renderer"))
  IN  /\ Truthy(webgl)
      /\ ~Truthy(Get(webgl, "error"))
      /\ \/ IncludesRaises(renderer)
         \/ (~SoftwareRenderer(renderer) /\ IncludesRaises(vendor))

hasUnusualWebGLVendor(components) ==
  LET webgl == Get(components, "webgl")
      vendor == OrEmpty(Get(webgl, "vendor"))
      renderer == OrEmpty(Get(webgl, "renderer"))
  IN  /\ Truthy(webgl)
      /\ ~Truthy(Get(webgl, "error"))
      /\ \/ SoftwareRenderer(renderer)
         \/ MethodIncludes(vendor, "Brian Paul")
         \/ MethodIncludes(renderer, "Mesa")

hasCanvasNoise(components) ==
  LET canvas == Get(components, "canvas")
  IN  Truthy(canvas) /\ canvas.type = "string" /\ Len(canvas.s) < 50

\* The try block's own raise is caught and reported as tampering
hasPropertyTampering(host) ==
  /\ host.window
  /\ \/ host.getterThrows
     \/ /\ host.getter # ""
        /\ \/ Includes(host.getter, "proxy")
           \/ Includes(host.getter, "return false")
           \/ Includes(host.getter, "undefined")

standardRates == {8000, 11025, 16000, 22050, 44100, 48000, 96000}

hasAudioTampering(components) ==
  LET audio == Get(components, "audio")
      sampleRate == Get(audio, "sampleRate")
  IN  /\ Truthy(audio)
      /\ ~Truthy(Get(audio, "error"))
      /\ \/ sampleRate = Num(0)
         \/ (sampleRate.type = "number" /\ (IsBig(sampleRate) \/ sampleRate.n > 192000))
         \/ ~(sampleRate.type = "number" /\ ~IsBig(sampleRate)
                /\ sampleRate.n \in standardRates)

(***************************************************************************)
(* SuspectAnalyzer: the rule battery and analyze.  A signal keeps its      *)
(* type, severity, category and detected flag (the description is a fixed  *)
(* text per type).                                                         *)
(***************************************************************************)
Signal(type, severity, detected, category) ==
  [type |-> type, severity |-> severity, detected |-> detected,
   category |-> category]

checkAutomation(components, host) ==
  <<Signal("webdriver", 9, hasWebDriver(host), "automation"),
    Signal("headless", 8, isHeadless(components, host), "automation"),
    Signal("phantom", 7, hasPhantomSignatures(components, host), "automation"),
    Signal("selenium", 8, hasSeleniumSignatures(host), "automation"),
    Signal("puppeteer", 9, hasPuppeteerSignatures(host), "automation"),
    Signal("playwright", 9, hasPlaywrightSignatures(host), "automation"),
    Signal("cdp", 7, hasCDPArtifacts(host), "automation")>>

checkConsistency(components) ==
  <<Signal("timezone_language", 5,
           hasTimezoneLanguageInconsistency(components), "inconsistency"),
    Signal("screen_consistency", 6, hasScreenInconsistency(components),
           "inconsistency"),
    Signal("generic_canvas", 4, hasGenericCanvas(components), "inconsistency"),
    Signal("ua_platform_mismatch", 6, hasUAPlatformMismatch(components),
           "inconsistency"),
    Signal("hardware_inconsistency", 5, hasHardwareInconsistency(components),
           "inconsistency")>>

checkEnvironment(components) ==
  <<Signal("missing_apis", 6, hasMissingAPIs(components), "environment"),
    Signal("collection_errors", 5, hasTooManyErrors(components), "environment"),
    Signal("suspicious_ua", 7, hasSuspiciousUserAgent(components), "environment"),
    Signal("touch_ua_mismatch", 5, hasTouchUAMismatch(components), "environment")>>

checkBotPatterns(components) ==
  <<Signal("too_perfect", 3, isTooStable(components), "bot"),
    Signal("bot_signature", 9, hasKnownBotSignature(components), "bot"),
    Signal("webgl_vendor", 4, hasUnusualWebGLVendor(components), "bot")>>

checkPrivacyTools(components, host) ==
  <<Signal("canvas_noise", 5, hasCanvasNoise(components), "privacy"),
    Signal("property_tampering", 6, hasPropertyTampering(host), "privacy"),
    Signal("audio_tampering", 5, hasAudioTampering(components), "privacy")>>

\* analyze has no try block: the first detection method that raises ends it
analyzeRaises(components, host) ==
  \/ isHeadlessRaises(components)
  \/ hasPhantomSignaturesRaises(components, host)
  \/ hasSeleniumSignaturesRaises(host)
  \/ hasTimezoneLanguageInconsistencyRaises(components)
  \/ hasUAPlatformMismatchRaises(components)
  \/ hasSuspiciousUserAgentRaises(components)
  \/ hasTouchUAMismatchRaises(components)
  \/ hasKnownBotSignatureRaises(components)
  \/ hasUnusualWebGLVendorRaises(components)

\* signals.filter((s) => s.detected)
FilterDetected_All(signals) == signals

FilterDetected(signals) == SelectSeq(signals, LAMBDA sig : sig.detected)

\* detectedSignals.reduce((sum, signal) => sum + signal.severity * 10, 0)
RECURSIVE ReduceSeverity(_)
ReduceSeverity(signals) ==
  IF signals = <<>> THEN 0
  ELSE ReduceSeverity(SubSeq(signals, 1, Len(signals) - 1))
         + signals[Len(signals)].severity * 10

MathMin_Second(a, b) == b

MathMin(a, b) == IF a < b THEN a ELSE b

calculateRiskLevel_Inclusive(score) ==
  IF score <= 30 THEN "LOW" ELSE IF score <= 70 THEN "MEDIUM" ELSE "HIGH"

calculateRiskLevel(score) ==
  IF score < 30 THEN "LOW" ELSE IF score < 70 THEN "MEDIUM" ELSE "HIGH"

\* All the signals of one analysis, in the order analyze pushes them
signalsOf(components, host) ==
  checkAutomation(components, host) \o checkConsistency(components)
    \o checkEnvironment(components) \o checkBotPatterns(components)
    \o checkPrivacyTools(components, host)

analyze(components, host) ==
  LET signals == signalsOf(components, host)
      detectedSignals == FilterDetected(signals)
      totalScore == MathMin(100, ReduceSeverity(detectedSignals))
      category(c) == \E i \in 1..Len(signals) :
                        signals[i].category = c /\ signals[i].detected
  IN  [score |-> totalScore,
       signals |-> detectedSignals,
       riskLevel |-> calculateRiskLevel(totalScore),
       details |->
         [totalSignalsDetected |-> Len(detectedSignals),
          highSeveritySignals |->
            Len(SelectSeq(detectedSignals, LAMBDA sig : sig.severity >= 8)),
          automationDetected |-> category("automation"),
          inconsistenciesFound |-> category("inconsistency"),
          privacyToolsDetected |-> category("privacy")]]

(***************************************************************************)
(* The collectors.  A collector is known by its name, the option that      *)
(* excludes it, its metadata (entropy, stable) and the way collect()       *)
(* settles: "sync" for a BaseCollector, "withTimeout" for an               *)
(* AsyncBaseCollector whose collect() races its source against a timer     *)
(* that resolves to fallback, "async" for one that awaits its source with  *)
(* no timer.                                                               *)
(***************************************************************************)
Collector(name, flag, entropy, stable, kind, fallback) ==
  [name |-> name, flag |-> flag, entropy |-> entropy, stable |-> stable,
   kind |-> kind, fallback |-> fallback]

\* AsyncBaseCollector.timeout, in milliseconds
CollectorTimeout == 5000

\* The collectors in the order initializeCollectors registers them
CollectorTable ==
  <<Collector("userAgent", "excludeUserAgent", 10, TRUE, "sync", Undefined),
    Collector("language", "excludeLanguage", 5, TRUE, "sync", Undefined),
    Collector("timezone", "excludeTimezone", 6, TRUE, "sync", Undefined),
    Collector("screen", "excludeScreenResolution", 8, TRUE, "sync", Undefined),
    Collector("plugins", "excludePlugins", 6, TRUE, "sync", Undefined),
    Collector("canvas", "excludeCanvas", 12, TRUE, "sync", Undefined),
    Collector("webgl", "excludeWebGL", 15, TRUE, "sync", Undefined),
    Collector("audio", "excludeAudio", 10, FALSE, "withTimeout",
              Obj(<<P("error", Str("audio-timeout"))>>)),
    Collector("fonts", "excludeFonts", 12, TRUE, "sync", Undefined),
    Collector("hardware", "excludeHardware", 8, TRUE, "sync", Undefined),
    Collector("webrtc", "excludeWebRTC", 8, FALSE, "withTimeout",
              Obj(<<P("hasWebRTC", Bool(TRUE)), P("localIPs", Arr(<<>>)),
                    P("error", Str("timeout"))>>)),
    Collector("clientHints", "excludeClientHints", 10, TRUE, "withTimeout",
              Obj(<<P("brands", Arr(<<>>)), P("mobile", Bool(FALSE)),
                    P("platform", Str("unknown"))>>)),
    Collector("storage", "excludeStorage", 4, TRUE, "async", Undefined),
    Collector("battery", "excludeBattery", 3, FALSE, "withTimeout",
              Obj(<<P("supported", Bool(FALSE))>>)),
    Collector("connection", "excludeConnection", 4, FALSE, "sync", Undefined),
    Collector("touch", "excludeTouch", 4, TRUE, "sync", Undefined),
    Collector("permissions", "excludePermissions", 5, FALSE, "async", Undefined),
    Collector("math", "excludeMath", 6, TRUE, "sync", Undefined),
    Collector("mediaDevices", "excludeMediaDevices", 5, TRUE, "withTimeout",
              Obj(<<P("audioInputs", Num(0)), P("audioOutputs", Num(0)),
                    P("videoInputs", Num(0)), P("hasMediaDevices", Bool(TRUE))>>))>>

(***************************************************************************)
(* Fingerprint: options and construction                                   *)
(***************************************************************************)
DEFAULT_OPTIONS == [timeout |-> 5000, parallel |-> TRUE, allowUnstableData |-> FALSE]

\* What reading an option the caller did not give yields: no exclude flag is
\* set, customData and includeSuspectAnalysis are undefined
AbsentOptions ==
  [exclude |-> {}, customData |-> Undefined, includeSuspectAnalysis |-> FALSE]

\* this.options = { ...DEFAULT_OPTIONS, ...options }
MergeOptions(options) == options @@ DEFAULT_OPTIONS @@ AbsentOptions

\* The collectors pushed by initializeCollectors, in order
initializeCollectors(options) ==
  SelectSeq(CollectorTable, LAMBDA c : c.flag \notin options.exclude)

Names(collectors) == [i \in 1..Len(collectors) |-> collectors[i].name]

ByName(name) ==
  CollectorTable[CHOOSE i \in 1..Len(CollectorTable) : CollectorTable[i].name = name]

(***************************************************************************)
(* Fingerprint: normalizeCustomData                                        *)
(***************************************************************************)
unstableKeys ==
  {"timestamp", "time", "now", "date", "random", "rand", "nonce", "salt",
   "sessionId", "requestId", "uuid", "performance", "timing"}

\* value > 1000000000000 && value < 9999999999999
LooksLikeTimestamp(v) ==
  /\ IsBig(v)
  /\ \/ v.big[1] > 1000000
     \/ (v.big[1] = 1000000 /\ v.big[2] > 0)
  /\ \/ v.big[1] < 9999999
     \/ (v.big[1] = 9999999 /\ v.big[2] < 999999)

\* /^[0-9a-f]{8}-[0-9a-f]{4}-[0-9a-f]{4}-[0-9a-f]{4}-[0-9a-f]{12}$/i.test(s)
LooksLikeUUID(s) ==
  /\ Len(s) = 36
  /\ \A i \in 1..36 :
       IF i \in {9, 14, 19, 24} THEN CharAt(s, i) = "-"
       ELSE LowerChar(CharAt(s, i)) \in
              {"0", "1", "2", "3", "4", "5", "6", "7", "8", "9",
               "a", "b", "c", "d", "e", "f"}

\* { ...data }: the own properties of an object; an array spreads into its
\* indices
Spread(data) ==
  IF data.type = "array"
  THEN [i \in 1..Len(data.items) |-> P(Digits(i - 1), data.items[i])]
  ELSE data.props

Unstable(prop) ==
  \/ prop.k \in unstableKeys
  \/ (prop.v.type = "number" /\ LooksLikeTimestamp(prop.v))
  \/ (prop.v.type = "string" /\ LooksLikeUUID(prop.v.s))

\* A loop that deletes from the sequence it walks by index, and so never
\* tests the property that follows one it removed
RECURSIVE DeleteSkipping(_, _)
DeleteSkipping(props, i) ==
  IF i > Len(props) THEN props
  ELSE IF Unstable(props[i])
       THEN DeleteSkipping(SubSeq(props, 1, i - 1) \o SubSeq(props, i + 1, Len(props)),
                           i + 1)
       ELSE DeleteSkipping(props, i + 1)

normalizeCustomData_SkipAfterDelete(data) ==
  IF ~Truthy(data) \/ TypeOf(data) # "object" THEN data
  ELSE Obj(DeleteSkipping(Spread(data), 1))

normalizeCustomData(data) ==
  IF ~Truthy(data) \/ TypeOf(data) # "object" THEN data
  ELSE Obj(SelectSeq(Spread(data), LAMBDA prop : ~Unstable(prop)))

\* What the mapping passed to normalizeCustomData holds when the call returns.
\* The deletions go to `normalized`, the copy made by `{ ...data }`, so the
\* argument keeps every property; were `normalized` the argument itself, the
\* argument would end as the returned mapping.
dataAfterNormalize_Aliased(data) == normalizeCustomData(data)

dataAfterNormalize(data) == data

\* Object.keys(v).length of a value that is neither null nor undefined
KeysLength(v) ==
  CASE v.type = "object" -> Len(v.props)
    [] v.type = "array" -> Len(v.items)
    [] v.type = "string" -> Len(v.s)
    [] OTHER -> 0

(***************************************************************************)
(* Fingerprint: generate and getComponents after Promise.all               *)
(*                                                                         *)
(* What collect() delivers is Returns(v) or Throws(message); the message   *)
(* is the message of the Error thrown.                                     *)
(***************************************************************************)
Returns(v) == [kind |-> "return", v |-> v]
Throws(message) == [kind |-> "throw", message |-> message]
Hangs == [kind |-> "hang"]
Pending == [kind |-> "pending"]

hasError(data) ==
  \/ data = Str("unknown")
  \/ data = Str("no-canvas")
  \/ (TypeOf(data) = "object" /\ data # Null /\ HasKey(data, "error"))

\* components[key] = value
SetProp(obj, key, value) ==
  IF HasKey(obj, key)
  THEN Obj([i \in 1..Len(obj.props) |->
              IF obj.props[i].k = key THEN P(key, value) ELSE obj.props[i]])
  ELSE Obj(Append(obj.props, P(key, value)))

RECURSIVE calculateEntropy(_, _)
calculateEntropy(components, collectors) ==
  IF collectors = <<>> THEN 0
  ELSE LET collector == collectors[Len(collectors)]
           data == Get(components, collector.name)
       IN  calculateEntropy(components, SubSeq(collectors, 1, Len(collectors) - 1))
             + (IF Truthy(data) /\ ~hasError(data)
                THEN (IF collector.entropy # 0 THEN collector.entropy ELSE 2)
                ELSE 0)

\* The value the async callback of generate returns for one collector
generateResult(name, delivered) ==
  IF delivered.kind = "return"
  THEN [name |-> name, data |-> delivered.v, error |-> Null]
  ELSE [name |-> name, data |-> Null, error |-> Str(delivered.message)]

\* The value the async callback of getComponents returns for one collector
getComponentsResult(name, delivered) ==
  IF delivered.kind = "return"
  THEN [name |-> name, data |-> delivered.v]
  ELSE [name |-> name, data |-> Obj(<<P("error", Str(delivered.message))>>)]

\* await Promise.all(collectionPromises): the values in the order of the
\* promises, whatever the order in which they settled
PromiseAll_SettleOrder(names, order) == order

PromiseAll(names, order) == names

\* The loop over results in generate; confidence is counted in halves
RECURSIVE processResults(_)
processResults(results) ==
  IF results = <<>> THEN [components |-> Obj(<<>>), confidence |-> 0]
  ELSE LET before == processResults(SubSeq(results, 1, Len(results) - 1))
           result == results[Len(results)]
       IN  IF Truthy(result.error)
           THEN [components |->
                   SetProp(before.components, result.name,
                           Obj(<<P("error", result.error)>>)),
                 confidence |-> before.confidence]
           ELSE [components |->
                   SetProp(before.components, result.name, result.data),
                 confidence |->
                   before.confidence + (IF hasError(result.data) THEN 0 ELSE 2)]

\* The loop over results in getComponents
RECURSIVE assignResults(_)
assignResults(results) ==
  IF results = <<>> THEN Obj(<<>>)
  ELSE SetProp(assignResults(SubSeq(results, 1, Len(results) - 1)),
               results[Len(results)].name, results[Len(results)].data)

customDataToUse_Normalized(options) == normalizeCustomData(options.customData)

\* customDataToUse
customDataToUse(options) ==
  IF options.allowUnstableData THEN options.customData
  ELSE normalizeCustomData(options.customData)

customAdded_WhenConfigured(options) == Truthy(options.customData)

\* Whether components.custom is set
customAdded(options) ==
  Truthy(options.customData) /\ KeysLength(customDataToUse(options)) > 0

withCustom(components, options) ==
  IF customAdded(options)
  THEN SetProp(components, "custom", customDataToUse(options))
  ELSE components

NaN == [type |-> "number", nan |-> TRUE]

confidencePercentage_Floor(confidence, maxConfidence) ==
  IF maxConfidence = 0 THEN NaN
  ELSE Num((100 * confidence) \div maxConfidence)

\* Math.round((confidence / maxConfidence) * 100), both counted in halves;
\* 0 / 0 is NaN
confidencePercentage(confidence, maxConfidence) ==
  IF maxConfidence = 0 THEN NaN
  ELSE Num((200 * confidence + maxConfidence) \div (2 * maxConfidence))

Rejected(error) == [status |-> "rejected", error |-> error]
Resolved(value) == [status |-> "resolved", value |-> value]
NotBrowser == [name |-> "FingerprintError", code |-> "NOT_BROWSER"]
TypeError == [name |-> "TypeError"]
DigestError == [name |-> "OperationError"]

\* generate from the processing of results to its return
generateTail(options, collectors, results, host, duration) ==
  LET processed == processResults(results)
      components == withCustom(processed.components, options)
      confidence == processed.confidence + (IF customAdded(options) THEN 1 ELSE 0)
      maxConfidence ==
        2 * Len(collectors) + (IF Truthy(options.customData) THEN 1 ELSE 0)
  IN  IF safeStringifyRaises(components) THEN Rejected(TypeError)
      ELSE IF sha256Raises(safeStringify(components), host.crypto)
           THEN Rejected(DigestError)
      ELSE IF options.includeSuspectAnalysis /\ analyzeRaises(components, host)
           THEN Rejected(TypeError)
      ELSE Resolved(
             [fingerprint |-> sha256(safeStringify(components), host.crypto),
              components |-> components,
              confidence |-> confidencePercentage(confidence, maxConfidence),
              entropy |-> calculateEntropy(components, collectors),
              duration |-> duration,
              version |-> "2.0.0",
              suspectAnalysis |->
                IF options.includeSuspectAnalysis
                THEN analyze(components, host) ELSE Undefined])

\* getComponents from the assignment of results to its return
getComponentsTail(options, results) ==
  Resolved(withCustom(assignResults(results), options))

(***************************************************************************)
(* The hosts, the options and the sources the model runs with              *)
(***************************************************************************)
NodeHost == Host(FALSE, FALSE, {}, 0, 0, "", FALSE, "subtle")
WindowOnlyHost == Host(TRUE, FALSE, {}, 1280, 800, "", FALSE, "subtle")
Chrome ==
  Host(TRUE, TRUE, {"window.chrome"}, 1280, 800,
       "function get webdriver() { [native code] }", FALSE, "subtle")
\* An insecure context: crypto.subtle is undefined
ChromeInsecure == [Chrome EXCEPT !.crypto = "absent"]
Automated ==
  Host(TRUE, TRUE,
       {"window.chrome", "navigator.webdriver",
        "window.cdc_adoQpoasnfa76pfcZLmcfl_Array"},
       0, 0, "() => undefined", FALSE, "subtle")

\* The last but one is a browser whose crypto.subtle.digest rejects, the
\* last a page run by PhantomJS
Hosts ==
  {NodeHost, WindowOnlyHost, Chrome, ChromeInsecure, Automated,
   [Chrome EXCEPT !.crypto = "rejects"],
   [Chrome EXCEPT !.truthy = {"window.chrome", "window.__phantomas"}]}

ChromeUA == "Mozilla/5.0 (Windows NT 10.0; Win64; x64) Chrome/120.0 Safari/537.36"
CanvasData == "data:image/png;base64,iVBORw0KGgoAAAANSUhEUgAAASwAAACWCAYAAABkW7XSAAAAAXNSR0IArs4c6QAAIABJREFUeF7tnQe4FdW5ht9"
Battery(level) ==
  Obj(<<P("supported", Bool(TRUE)), P("charging", Bool(TRUE)), P("level", Num(level))>>)

\* What the source behind collect() can do, per collector: return a value,
\* throw an Error with a message or, for an asynchronous source, never settle
Sources(name) ==
  CASE name = "userAgent" -> {Returns(Str(ChromeUA)), Throws("boom"), Throws("")}
    [] name = "battery" ->
         {Returns(Battery(50)), Returns(Battery(80)), Returns(Obj(<<P("supported", Bool(FALSE))>>)), Hangs}
    [] name = "permissions" -> 
         {Returns(Obj(<<P("notifications", Str("granted"))>>)), Throws("boom"), Hangs}
    [] name = "canvas" -> {Returns(Str(CanvasData)), Returns(Str("no-canvas"))}
    [] name = "audio" -> 
         {Returns(Obj(<<P("sampleRate", Num(44100)), P("state", Str("running"))>>)),
          Hangs}
    [] name = "timezone" ->
         {Returns(Str("Europe/Paris")), Returns(Str("unknown")), Returns(Undefined)}
    [] name = "webgl" ->
         {Returns(Obj(<<P("vendor", Str("Google Inc.")), P("renderer", Str("ANGLE"))>>)),
          Returns(Obj(<<P("error", Str("no-webgl-context"))>>))}
    [] name = "webrtc" ->
         {Returns(Obj(<<P("hasWebRTC", Bool(FALSE)), P("localIPs", Arr(<<>>))>>)),
          Hangs}
    [] OTHER -> {Returns(Obj(<<>>))}

\* The sources of the collectors of a set of names
RECURSIVE Environments(_)
Environments(names) ==
  IF names = {} THEN {<<>>}
  ELSE LET n == CHOOSE m \in names : TRUE
       IN  {e @@ (n :> v) : e \in Environments(names \ {n}), v \in Sources(n)}

\* The exclude options of every collector but those named
Except(names) ==
  {CollectorTable[i].flag :
     i \in {j \in 1..Len(CollectorTable) : CollectorTable[j].name \notin names}}

\* The options the callers of the model construct a Fingerprint with
CallerOptions ==
  {[exclude |-> Except({"userAgent", "battery", "permissions"})],
   [exclude |-> Except({"userAgent", "battery", "permissions"}),
    includeSuspectAnalysis |-> TRUE],
   [exclude |-> Except({"userAgent", "battery", "permissions"}),
    timeout |-> 3000, customData |-> Obj(<<P("userId", Str("u1"))>>)],
   [exclude |-> Except({"canvas", "audio"}),
    customData |-> Obj(<<P("timestamp", BigNum(1700000, 0)), P("plan", Str("pro"))>>)],
   [exclude |-> Except({"canvas", "audio"}), allowUnstableData |-> TRUE,
    customData |-> Obj(<<P("timestamp", BigNum(1700000, 0))>>)],
   [exclude |-> Except({"canvas"}), includeSuspectAnalysis |-> TRUE,
    customData |-> Obj(<<P("nonce", Str("n1"))>>)],
   [exclude |-> Except({"userAgent", "canvas"}),
    customData |-> Obj(<<P("quota", BigInt(7))>>)],
   [exclude |-> Except({"timezone", "canvas", "webgl", "audio", "webrtc",
                        "permissions"}),
    includeSuspectAnalysis |-> TRUE],
   [exclude |-> Except({"battery", "permissions"}), parallel |-> FALSE],
   [exclude |-> Except({})]}

(***************************************************************************)
(* The state                                                               *)
(*                                                                         *)
(* host       the ambient globals                                          *)
(* options    this.options of the Fingerprint instance                     *)
(* collectors this.collectors                                              *)
(* source     what the source behind each collector does when collected    *)
(* pc         "idle", "collecting" (awaiting Promise.all) or "done"        *)
(* op         the operation called last                                    *)
(* invoked    the collectors whose collect() the current call has called   *)
(* task       per collector, Pending or what its promise settled with      *)
(* order      the collectors in the order their promises settled           *)
(* elapsed    milliseconds since the current call started                  *)
(* outcome    how the call ended: Resolved(value) or Rejected(error)       *)
(* prev       the sources and outcome of the call before, or NoCall        *)
(* input      the mapping handed to a direct call of analyze or of         *)
(*            normalizeCustomData                                          *)
(***************************************************************************)
VARIABLES host, options, collectors, source, pc, op, invoked, task, order,
          elapsed, outcome, prev, input

vars == <<host, options, collectors, source, pc, op, invoked, task, order,
          elapsed, outcome, prev, input>>

\* The clock of the model advances by TickMs up to MaxElapsed
TickMs == 1000
MaxElapsed == 7000

NoCall == [status |-> "none"]

NameSet(cs) == {cs[i].name : i \in 1..Len(cs)}

Constructed(o) ==
  /\ options = MergeOptions(o)
  /\ collectors = initializeCollectors(MergeOptions(o))
  /\ source \in Environments(NameSet(initializeCollectors(MergeOptions(o))))

Idle ==
  /\ pc = "idle"
  /\ op = "none"
  /\ invoked = <<>>
  /\ task = <<>>
  /\ order = <<>>
  /\ elapsed = 0
  /\ outcome = NoCall
  /\ prev = NoCall

Init ==
  /\ host \in Hosts
  /\ \E o \in CallerOptions : Constructed(o)
  /\ Idle
  /\ input = Obj(<<>>)

\* The synchronous part of generate and getComponents: the environment check,
\* then collectors.map calls every collect() in order.  The promise of a
\* synchronous collector is settled by the time Promise.all is awaited.
Call(kind) ==
  /\ pc = "idle"
  /\ op' = kind
  /\ elapsed' = 0
  /\ IF ~isBrowser(host)
     THEN /\ outcome' = Rejected(NotBrowser)
          /\ pc' = "done"
          /\ invoked' = <<>>
          /\ task' = <<>>
          /\ order' = <<>>
     ELSE /\ outcome' = NoCall
          /\ pc' = "collecting"
          /\ invoked' = Names(collectors)
          /\ task' = [n \in NameSet(collectors) |->
                        IF ByName(n).kind = "sync" THEN source[n]
                        ELSE Pending]
          /\ order' = Names(SelectSeq(collectors, LAMBDA c : c.kind = "sync"))
  /\ UNCHANGED <<host, options, collectors, source, prev, input>>

Generate == Call("generate")

GetComponents == Call("getComponents")

\* The source of an asynchronous collector settles: its promise fulfils or
\* rejects
Settle(n) ==
  /\ pc = "collecting"
  /\ task[n] = Pending
  /\ source[n] # Hangs
  /\ task' = [task EXCEPT ![n] = source[n]]
  /\ order' = Append(order, n)
  /\ UNCHANGED <<host, options, collectors, source, pc, op, invoked, elapsed,
                 outcome, prev, input>>

\* The timer of withTimeout fires after this.timeout and resolves the race
\* with the fallback
TimerDue(n) ==
  /\ task[n] = Pending
  /\ ByName(n).kind = "withTimeout"
  /\ elapsed >= CollectorTimeout

TimerFires(n) ==
  /\ pc = "collecting"
  /\ TimerDue(n)
  /\ task' = [task EXCEPT ![n] = Returns(ByName(n).fallback)]
  /\ order' = Append(order, n)
  /\ UNCHANGED <<host, options, collectors, source, pc, op, invoked, elapsed,
                 outcome, prev, input>>

\* Time passes while every pending source hangs; a source that settles does
\* so before the next tick, and a timer that is due fires before it
Tick ==
  /\ pc = "collecting"
  /\ \E n \in DOMAIN task : task[n] = Pending
  /\ \A n \in DOMAIN task : task[n] = Pending => source[n] = Hangs /\ ~TimerDue(n)
  /\ elapsed + TickMs <= MaxElapsed
  /\ elapsed' = elapsed + TickMs
  /\ UNCHANGED <<host, options, collectors, source, pc, op, invoked, task, order,
                 outcome, prev, input>>

\* The values Promise.all resolves with, as the callbacks of the operation
\* return them
Results ==
  LET names == PromiseAll(Names(collectors), order)
  IN  [i \in 1..Len(names) |->
         IF op = "generate" THEN generateResult(names[i], task[names[i]])
         ELSE getComponentsResult(names[i], task[names[i]])]

\* Promise.all has resolved: the rest of generate or getComponents runs.
\* options.customData is the mapping the caller passed to the constructor,
\* the same object: what the call does to it, the caller sees.
Collected ==
  /\ pc = "collecting"
  /\ \A n \in DOMAIN task : task[n] # Pending
  /\ outcome' = IF op = "generate"
                THEN generateTail(options, collectors, Results, host, elapsed)
                ELSE getComponentsTail(options, Results)
  /\ options' = [options EXCEPT !.customData =
                   IF Truthy(@) /\ ~options.allowUnstableData
                   THEN dataAfterNormalize(@) ELSE @]
  /\ pc' = "done"
  /\ UNCHANGED <<host, collectors, source, op, invoked, task, order,
                 elapsed, prev, input>>

Next ==
  \/ Generate
  \/ GetComponents
  \/ \E n \in DOMAIN task : Settle(n)
  \/ \E n \in DOMAIN task : TimerFires(n)
  \/ Tick
  \/ Collected

Spec == Init /\ [][Next]_vars

(***************************************************************************)
(* A second call on the same instance.  Between two calls the host may     *)
(* have changed what the sources give.                                     *)
(***************************************************************************)
Return ==
  /\ pc = "done"
  /\ prev' = [status |-> "called", op |-> op, task |-> task, order |-> order,
              elapsed |-> elapsed, outcome |-> outcome]
  /\ source' \in Environments(NameSet(collectors))
  /\ pc' = "idle"
  /\ op' = "none"
  /\ invoked' = <<>>
  /\ task' = <<>>
  /\ order' = <<>>
  /\ elapsed' = 0
  /\ outcome' = NoCall
  /\ UNCHANGED <<host, options, collectors, input>>

InitTwice ==
  /\ host \in {Chrome, ChromeInsecure}
  /\ Constructed([exclude |-> Except({"userAgent", "battery", "permissions"}),
                  customData |-> Obj(<<P("userId", Str("u1"))>>)])
  /\ Idle
  /\ input = Obj(<<>>)

SpecTwice == InitTwice /\ [][Next \/ Return]_vars

(***************************************************************************)
(* A direct call of SuspectAnalyzer.analyze on a mapping                   *)
(***************************************************************************)
\* The mapping that holds the chosen entries; Undefined stands for a mapping
\* without the key
Mapping(choice) ==
  Obj(SelectSeq(<<P("userAgent", choice.userAgent), P("canvas", choice.canvas),
                  P("screen", choice.screen), P("webgl", choice.webgl)>>,
                LAMBDA prop : prop.v # Undefined))

AnalyzeInputs ==
  {Mapping(choice) : choice \in
     [userAgent : {Undefined, Str(ChromeUA), Str("Googlebot/2.1"), Str("unknown"),
                   Obj(<<P("error", Str("boom"))>>)},
      canvas : {Undefined, Str(CanvasData), Str("no-canvas")},
      screen : {Undefined,
                Obj(<<P("width", Num(800)), P("height", Num(600)),
                      P("colorDepth", Num(24))>>),
                Obj(<<P("width", Num(1920)), P("height", Num(1080)),
                      P("colorDepth", Num(24))>>)},
      webgl : {Undefined,
               Obj(<<P("vendor", Str("Google Inc.")),
                     P("renderer", Str("SwiftShader"))>>)}]}

InitAnalyze ==
  /\ host \in Hosts
  /\ Constructed([exclude |-> Except({})])
  /\ Idle
  /\ input \in AnalyzeInputs

Analyze ==
  /\ pc = "idle"
  /\ op' = "analyze"
  /\ outcome' = IF analyzeRaises(input, host) THEN Rejected(TypeError)
                ELSE Resolved(analyze(input, host))
  /\ pc' = "done"
  /\ UNCHANGED <<host, options, collectors, source, invoked, task, order,
                 elapsed, prev, input>>

\* The same mapping is analyzed again, the globals of the page being what
\* they are by then
AnalyzeAgain ==
  /\ pc = "done"
  /\ op = "analyze"
  /\ prev = NoCall
  /\ prev' = [status |-> "called", op |-> op, outcome |-> outcome, host |-> host]
  /\ host' \in Hosts
  /\ outcome' = IF analyzeRaises(input, host') THEN Rejected(TypeError)
                ELSE Resolved(analyze(input, host'))
  /\ UNCHANGED <<options, collectors, source, pc, op, invoked, task, order,
                 elapsed, input>>

SpecAnalyze == InitAnalyze /\ [][Analyze \/ AnalyzeAgain]_vars

(***************************************************************************)
(* normalizeCustomData called on a mapping, and called again on what it    *)
(* returned                                                                *)
(***************************************************************************)
\* The properties the customData mappings of the model are made of: plain
\* values, denylisted keys, numbers around the two bounds of the timestamp
\* test and a string of the UUID shape
CustomPool ==
  <<P("userId", Str("u1")),
    P("nonce", Str("n1")),
    P("created", BigNum(1699999, 999999)),
    P("limit", BigNum(9999999, 999999)),
    P("floor", BigNum(1000000, 0)),
    P("trace", Str("123E4567-e89b-12d3-a456-426614174000")),
    P("count", Num(42)),
    P("time", Str("noon"))>>

CustomInputs ==
  {Obj(SelectSeq(CustomPool, LAMBDA prop : prop.k \in keys)) :
     keys \in SUBSET {CustomPool[i].k : i \in 1..Len(CustomPool)}}

InitNormalize ==
  /\ host = Chrome
  /\ Constructed([exclude |-> Except({})])
  /\ Idle
  /\ input \in CustomInputs

Normalize ==
  /\ pc = "idle"
  /\ op' = "normalizeCustomData"
  /\ outcome' = Resolved(normalizeCustomData(input))
  /\ pc' = "done"
  /\ UNCHANGED <<host, options, collectors, source, invoked, task, order,
                 elapsed, prev, input>>

NormalizeAgain ==
  /\ pc = "done"
  /\ prev = NoCall
  /\ prev' = [status |-> "called", op |-> op, outcome |-> outcome]
  /\ outcome' = Resolved(normalizeCustomData(outcome.value))
  /\ UNCHANGED <<host, options, collectors, source, pc, op, invoked, task,
                 order, elapsed, input>>

SpecNormalize == InitNormalize /\ [][Normalize \/ NormalizeAgain]_vars

(***************************************************************************)
(* sha256 called on a message, and called again on a message.  The         *)
(* messages are the serializations of the customData mappings.             *)
(***************************************************************************)
InitHash ==
  /\ host \in {Chrome, ChromeInsecure}
  /\ Constructed([exclude |-> Except({})])
  /\ Idle
  /\ input \in CustomInputs

\* await sha256(safeStringify(input)); the second call is on a message of
\* at most one property
Digest ==
  /\ prev = NoCall
  /\ \/ /\ pc = "idle"
        /\ input' = input
        /\ prev' = prev
     \/ /\ pc = "done"
        /\ input' \in {d \in CustomInputs : Len(d.props) <= 1}
        /\ prev' = [status |-> "called", op |-> op, input |-> input,
                    outcome |-> outcome]
  /\ op' = "sha256"
  /\ outcome' = Resolved(Str(sha256(safeStringify(input'), host.crypto)))
  /\ pc' = "done"
  /\ UNCHANGED <<host, options, collectors, source, invoked, task, order,
                 elapsed>>

SpecHash == InitHash /\ [][Digest]_vars

(***************************************************************************)
(* Instances that differ in their custom data only.  After a call the      *)
(* caller either calls the same instance again or constructs another       *)
(* Fingerprint with other custom data options in the same environment.     *)
(***************************************************************************)
\* customData omitted, undefined, empty, emptied by normalization, partly
\* kept by it, and passed through with allowUnstableData
CustomOptions ==
  {[exclude |-> Except({"userAgent", "canvas"})],
   [exclude |-> Except({"userAgent", "canvas"}), customData |-> Undefined],
   [exclude |-> Except({"userAgent", "canvas"}), customData |-> Obj(<<>>)],
   [exclude |-> Except({"userAgent", "canvas"}),
    customData |-> Obj(<<CustomPool[2], CustomPool[3], CustomPool[6]>>)],
   [exclude |-> Except({"userAgent", "canvas"}),
    customData |-> Obj(<<CustomPool[1], CustomPool[2]>>)],
   [exclude |-> Except({"userAgent", "canvas"}),
    customData |-> Obj(<<CustomPool[1], CustomPool[7]>>)],
   [exclude |-> Except({"userAgent", "canvas"}),
    customData |-> Obj(<<CustomPool[7], CustomPool[1]>>)],
   [exclude |-> Except({"userAgent", "canvas"}), allowUnstableData |-> TRUE,
    customData |-> Obj(<<CustomPool[1], CustomPool[2], CustomPool[3],
                         CustomPool[6]>>)]}

InitCustom ==
  /\ host \in {Chrome, ChromeInsecure}
  /\ \E o \in CustomOptions : Constructed(o)
  /\ Idle
  /\ input = Obj(<<>>)

Reconstruct ==
  /\ pc = "done"
  /\ prev' = [status |-> "rebuilt", op |-> op, task |-> task, order |-> order,
              elapsed |-> elapsed, outcome |-> outcome, options |-> options]
  /\ \E o \in CustomOptions :
       /\ options' = MergeOptions(o)
       /\ collectors' = initializeCollectors(MergeOptions(o))
  /\ pc' = "idle"
  /\ op' = "none"
  /\ invoked' = <<>>
  /\ task' = <<>>
  /\ order' = <<>>
  /\ elapsed' = 0
  /\ outcome' = NoCall
  /\ UNCHANGED <<host, source, input>>

SpecCustom ==
  InitCustom /\ [][Generate \/ GetComponents \/ Collected \/ Return \/ Reconstruct]_vars

(***************************************************************************)
(* Properties of SuspectAnalyzer.analyze, under SpecAnalyze                *)
(***************************************************************************)
Analyzed == op = "analyze" /\ outcome.status = "resolved"

RECURSIVE SeverityTotal(_)
SeverityTotal(signals) ==
  IF signals = <<>> THEN 0
  ELSE Head(signals).severity + SeverityTotal(Tail(signals))

Types(signals) == [i \in 1..Len(signals) |-> signals[i].type]

\* C1: every result of analyze lists exactly the evaluated signals whose
\* detected flag is true, in the order of their evaluation, and its score is
\* min(100, 10 * the sum of their severities), so that 0 <= score <= 100.
C1_DetectedSignalsAndScore ==
  Analyzed =>
    LET evaluated == signalsOf(input, host)
        kept == {i \in 1..Len(evaluated) : evaluated[i].detected}
        total == 10 * SeverityTotal(outcome.value.signals)
    IN  /\ \A i \in 1..Len(outcome.value.signals) : outcome.value.signals[i].detected
        /\ Len(outcome.value.signals) = Cardinality(kept)
        /\ \A i \in kept : \E j \in 1..Len(outcome.value.signals) :
             outcome.value.signals[j] = evaluated[i]
        /\ outcome.value.score = (IF total > 100 THEN 100 ELSE total)
        /\ outcome.value.score \in 0..100

\* A result whose detected severities add up to more than 10, beside signals
\* that were evaluated and not detected
C1_Witness ==
  /\ Analyzed
  /\ SeverityTotal(outcome.value.signals) > 10
  /\ outcome.value.score = 100
  /\ Len(outcome.value.signals) < Len(signalsOf(input, host))
  /\ Len(outcome.value.signals) > 2

\* C2: in every result of analyze the risk level follows from the score
\* alone: LOW iff score < 30, MEDIUM iff 30 <= score < 70, HIGH iff
\* score >= 70; a result whose only detected signal is too_perfect has score
\* 30 and risk level MEDIUM.
C2_RiskLevelFromScore ==
  Analyzed =>
    /\ outcome.value.riskLevel = "LOW" <=> outcome.value.score < 30
    /\ outcome.value.riskLevel = "MEDIUM" <=>
         (30 <= outcome.value.score /\ outcome.value.score < 70)
    /\ outcome.value.riskLevel = "HIGH" <=> outcome.value.score >= 70
    /\ Types(outcome.value.signals) = <<"too_perfect">> =>
         (outcome.value.score = 30 /\ outcome.value.riskLevel = "MEDIUM")

\* A result whose only detected signal is too_perfect
C2_Witness ==
  /\ Analyzed
  /\ Types(outcome.value.signals) = <<"too_perfect">>
  /\ outcome.value.riskLevel = "MEDIUM"

(***************************************************************************)
(* Properties of generate and getComponents, under Spec                    *)
(***************************************************************************)
\* The supported environment: window and document are both defined
SupportedEnvironment == host.window /\ host.document

GenerateDone == pc = "done" /\ op = "generate"

Threw(n) == task[n].kind = "throw"

IsErrorMarker(v) == v.type = "object" /\ HasKey(v, "error")

Successes ==
  Cardinality({n \in DOMAIN task : task[n].kind = "return" /\ ~hasError(task[n].v)})

C5_HungSourceFallsBack ==
  \A n \in DOMAIN task :
    (pc = "collecting" /\ elapsed > CollectorTimeout /\ elapsed > options.timeout)
      => task[n] # Pending

\* C6: the wait bound of a source that races a timer is the timeout option
\* of the caller: past options.timeout milliseconds no such source is still
\* pending.
C6_WaitBoundIsTimeoutOption ==
  \A n \in DOMAIN task :
    (pc = "collecting" /\ ByName(n).kind = "withTimeout" /\ elapsed > options.timeout)
      => task[n] # Pending

\* C7: outside a supported environment generate and getComponents invoke no
\* collector, never await a collection, and end rejected with the
\* FingerprintError of code NOT_BROWSER, returning no result.
C7_NotBrowserFailsFast ==
  ~SupportedEnvironment =>
    /\ invoked = <<>>
    /\ task = <<>>
    /\ pc # "collecting"
    /\ pc = "done" => outcome = Rejected(NotBrowser)

\* getComponents has failed on a host that defines window and no document,
\* with collectors registered
C7_Witness ==
  /\ pc = "done"
  /\ op = "getComponents"
  /\ host.window /\ ~host.document
  /\ collectors # <<>>
  /\ outcome = Rejected(NotBrowser)

\* C8: in a supported environment generate never fails: it resolves with a
\* result that holds fingerprint, components, confidence and entropy.
C8_GenerateNeverFails ==
  (GenerateDone /\ SupportedEnvironment) =>
    /\ outcome.status = "resolved"
    /\ {"fingerprint", "components", "confidence", "entropy"}
         \subseteq DOMAIN outcome.value

(***************************************************************************)
(* Properties of two calls of generate, under SpecTwice                    *)
(***************************************************************************)
BothResolved ==
  /\ GenerateDone
  /\ outcome.status = "resolved"
  /\ prev.status = "called"
  /\ prev.op = "generate"
  /\ prev.outcome.status = "resolved"

\* C9: two calls of generate in which every collector delivered the same
\* value, with the same customData, resolve with the same fingerprint,
\* whatever the time each took and the order in which the collectors
\* completed.
C9_SameValuesSameFingerprint ==
  (BothResolved /\ prev.task = task) =>
    outcome.value.fingerprint = prev.outcome.value.fingerprint

\* Two such calls whose collectors completed in different orders and after
\* different times
C9_Witness ==
  /\ BothResolved
  /\ prev.task = task
  /\ prev.order # order
  /\ prev.elapsed # elapsed
  /\ HasKey(outcome.value.components, "custom")

\* C10: two calls of generate that differ only in what the collectors whose
\* metadata has stable = false delivered resolve with the same fingerprint.
C10_OnlyStableSignalsDrive ==
  (BothResolved /\ \A n \in DOMAIN task : ByName(n).stable => prev.task[n] = task[n])
    => outcome.value.fingerprint = prev.outcome.value.fingerprint

(***************************************************************************)
(* Properties of normalizeCustomData, under SpecNormalize                  *)
(***************************************************************************)
Normalized == op = "normalizeCustomData" /\ pc = "done"

\* 10^12 < v < 10^13 for a number v
TimestampMagnitude(v) ==
  /\ IsBig(v)
  /\ v.big[1] >= 1000000
  /\ (v.big[1] = 1000000 => v.big[2] > 0)
  /\ v.big[1] < 10000000

\* C11: without allowUnstableData, normalizeCustomData(d) is d restricted to
\* the keys that are not denylisted and whose value is neither a number v
\* with 10^12 < v < 10^13 nor a string of the UUID shape; the kept keys keep
\* their values and no key is added.
C11_NormalizeKeepsExactlyStable ==
  (Normalized /\ prev = NoCall) =>
    outcome.value =
      Obj(SelectSeq(input.props, LAMBDA prop :
            /\ prop.k \notin {"timestamp", "time", "now", "date", "random",
                               "rand", "nonce", "salt", "sessionId",
                               "requestId", "uuid", "performance", "timing"}
            /\ ~(prop.v.type = "number" /\ TimestampMagnitude(prop.v))
            /\ ~(prop.v.type = "string" /\ LooksLikeUUID(prop.v.s))))

\* C12: normalization is idempotent: normalizing what normalizeCustomData
\* returned gives that mapping again, whatever the mapping first passed.
C12_NormalizeIdempotent ==
  (Normalized /\ prev # NoCall) => outcome.value = prev.outcome.value

C12_Witness ==
  /\ Normalized
  /\ prev # NoCall
  /\ outcome.value.props # <<>>
  /\ Len(prev.outcome.value.props) + 2 <= Len(input.props)

Merged(o, result) ==
  IF o = "generate" THEN result.value.components ELSE result.value

CallResolved == pc = "done" /\ outcome.status = "resolved"

\* C14: with allowUnstableData and a customData that is not empty, the
\* custom entry of the mapping generate and getComponents merge is customData
\* itself: every key with its value, denylisted keys, numbers of timestamp
\* magnitude and strings of the UUID shape included.
C14_UnstableDataPassesThrough ==
  ( /\ CallResolved
    /\ options.allowUnstableData
    /\ Truthy(options.customData)
    /\ options.customData.props # <<>> )
  => /\ HasKey(Merged(op, outcome), "custom")
     /\ Get(Merged(op, outcome), "custom") = options.customData

C14_Witness ==
  /\ CallResolved
  /\ op = "getComponents"
  /\ prev # NoCall
  /\ prev.op = "generate"
  /\ prev.outcome.status = "resolved"
  /\ options.allowUnstableData
  /\ Get(Get(outcome.value, "custom"), "nonce") = Str("n1")
  /\ Get(Get(outcome.value, "custom"), "created") = BigNum(1699999, 999999)
  /\ LooksLikeUUID(Get(Get(outcome.value, "custom"), "trace").s)
  /\ Get(prev.outcome.value.components, "custom") = Get(outcome.value, "custom")

\* The options give no custom data to merge: customData is omitted or
\* undefined, is the empty mapping, or loses every key to normalization
NoEffectiveCustomData(o) ==
  \/ o.customData = Undefined
  \/ /\ o.customData.type = "object"
     /\ \/ o.customData.props = <<>>
        \/ /\ ~o.allowUnstableData
           /\ \A i \in 1..Len(o.customData.props) : Unstable(o.customData.props[i])

\* Two instances, generate resolved on both, each collector having
\* delivered the same to both
SameValuesOtherInstance ==
  /\ GenerateDone
  /\ outcome.status = "resolved"
  /\ prev.status = "rebuilt"
  /\ prev.op = "generate"
  /\ prev.outcome.status = "resolved"
  /\ prev.task = task

\* C15: for the same collector values, generate gives a components mapping
\* without a custom entry and the same fingerprint whether customData is
\* omitted, undefined, the empty mapping or a mapping normalization empties.
C15_NoCustomDataIsOmission ==
  ( /\ SameValuesOtherInstance
    /\ NoEffectiveCustomData(prev.options)
    /\ NoEffectiveCustomData(options) )
  => /\ ~HasKey(outcome.value.components, "custom")
     /\ ~HasKey(prev.outcome.value.components, "custom")
     /\ outcome.value.fingerprint = prev.outcome.value.fingerprint

C15_Witness ==
  /\ SameValuesOtherInstance
  /\ prev.options.customData = Obj(<<>>)
  /\ Truthy(options.customData)
  /\ Len(options.customData.props) = 3
  /\ NoEffectiveCustomData(options)
  /\ outcome.value.fingerprint = prev.outcome.value.fingerprint

\* C16: a customData that is supplied and has nothing to merge (it is empty
\* or normalization empties it) leaves the confidence of generate what it
\* is, for the same collector outcomes, when customData is omitted.
C16_EmptyCustomBlockNotCounted ==
  ( /\ SameValuesOtherInstance
    /\ prev.options.customData = Undefined
    /\ Truthy(options.customData)
    /\ NoEffectiveCustomData(options) )
  => outcome.value.confidence = prev.outcome.value.confidence

(***************************************************************************)
(* Properties of the confidence and the entropy of generate, under Spec    *)
(***************************************************************************)
GenerateResolved == GenerateDone /\ outcome.status = "resolved"

\* An error marker: a mapping with an error field or one of the sentinel
\* strings
MarksFailure(v) ==
  \/ v \in {Str("unknown"), Str("no-canvas")}
  \/ IsErrorMarker(v)

\* The registered collectors whose entry in the merged mapping is no error
\* marker
Unmarked ==
  {i \in 1..Len(collectors) :
     ~MarksFailure(Get(outcome.value.components, collectors[i].name))}

\* Twice S + c and twice M + d, with c a half for a custom entry in the
\* merged mapping and d a half for a configured customData
Numerator ==
  2 * Cardinality(Unmarked)
    + (IF HasKey(outcome.value.components, "custom") THEN 1 ELSE 0)

Denominator ==
  2 * Len(collectors) + (IF options.customData # Undefined THEN 1 ELSE 0)

\* C17: generate returns confidence = round(100 * (S + c) / (M + d)), M the
\* number of registered collectors, S the number of them whose entry is no
\* error marker, c a half if the merged mapping has a custom entry, d a half
\* if customData is configured.  Stated where the quotient is defined, that
\* is M + d > 0; the half is rounded up.
C17_ConfidenceFormula ==
  (GenerateResolved /\ Denominator > 0) =>
    outcome.value.confidence =
      Num((200 * Numerator + Denominator) \div (2 * Denominator))

C17_Witness ==
  /\ GenerateResolved
  /\ Len(collectors) = 3
  /\ Cardinality(Unmarked) = 2
  /\ ~HasKey(outcome.value.components, "custom")
  /\ outcome.value.confidence = Num(67)

\* C18: whatever the exclude flags, the custom data and the outcomes of the
\* collectors, the confidence generate accumulates is at most the number of
\* registered collectors (plus a half if custom data is present) and the
\* confidence it returns is an integer in 0..100.
C18_ConfidenceBounded ==
  GenerateResolved =>
    /\ processResults(Results).confidence + (IF customAdded(options) THEN 1 ELSE 0)
         <= 2 * Len(collectors)
              + (IF HasKey(outcome.value.components, "custom") THEN 1 ELSE 0)
    /\ outcome.value.confidence \in {Num(k) : k \in 0..100}

\* The sum of the entropy constants of the registered collectors at the
\* given positions
RECURSIVE EntropyOver(_)
EntropyOver(indices) ==
  IF indices = {} THEN 0
  ELSE LET i == CHOOSE j \in indices : TRUE
       IN  collectors[i].entropy + EntropyOver(indices \ {i})

\* C19: the entropy generate returns is the sum of the entropy constants of
\* exactly the registered collectors whose entry is no error marker, the
\* collectors the confidence counts as successes; error markers and the
\* custom entry add nothing.
C19_EntropyOfUnmarked ==
  GenerateResolved => outcome.value.entropy = EntropyOver(Unmarked)

\* The mapping generate has merged by the time it computes the confidence
MergedByGenerate == withCustom(processResults(Results).components, options)

\* generate has collected and every registered collector has an error
\* marker for its entry
AllMarked ==
  /\ GenerateDone
  /\ SupportedEnvironment
  /\ collectors # <<>>
  /\ \A i \in 1..Len(collectors) :
       MarksFailure(Get(MergedByGenerate, collectors[i].name))

\* C20: when the entry of every registered collector is an error marker,
\* generate reports confidence 0 and entropy 0, and the analysis of the
\* merged mapping returns a result in which missing_apis is detected, and
\* collection_errors too when there are more than 5 error markers.
C20_AllErrorsMapping ==
  AllMarked =>
    /\ outcome.status = "resolved"
    /\ outcome.value.confidence = Num(0)
    /\ outcome.value.entropy = 0
    /\ ~analyzeRaises(MergedByGenerate, host)
    /\ \E i \in 1..Len(analyze(MergedByGenerate, host).signals) :
         analyze(MergedByGenerate, host).signals[i].type = "missing_apis"
    /\ Len(collectors) > 5 =>
         \E i \in 1..Len(analyze(MergedByGenerate, host).signals) :
           analyze(MergedByGenerate, host).signals[i].type = "collection_errors"

(***************************************************************************)
(* Properties of the rule checks of SuspectAnalyzer, under SpecAnalyze     *)
(***************************************************************************)
\* C21: in a browser, analyze returns a result for every mapping, the
\* mappings in which an entry is an error marker or has an unexpected shape
\* included: a rule check that raises counts as not detected and does not
\* end the analysis.
C21_AnalyzeAlwaysReturns ==
  (pc = "done" /\ op = "analyze" /\ SupportedEnvironment) =>
    outcome.status = "resolved"

(***************************************************************************)
(* Properties of sources that give no value, under Spec                    *)
(***************************************************************************)
\* The collector lost the race against its timer, or its source declared
\* itself unsupported (the value BatteryCollector returns when
\* isSupported() is false)
GaveNoValue(n) ==
  \/ source[n] = Hangs
  \/ n = "battery" /\ source[n] = Returns(Obj(<<P("supported", Bool(FALSE))>>))

\* C22: a source that declares itself unsupported or that loses the race
\* against the timeout has an error marker for its entry in the mapping
\* generate merges, and so adds nothing to the entropy, whichever registered
\* source it is.
C22_NoValueIsErrorMarked ==
  GenerateResolved =>
    /\ \A n \in DOMAIN task :
         GaveNoValue(n) => MarksFailure(Get(outcome.value.components, n))
    /\ outcome.value.entropy <=
         EntropyOver({i \in 1..Len(collectors) : ~GaveNoValue(collectors[i].name)})

\* C23: detection is a function of the mapping alone: two calls of analyze
\* on the same mapping return the same score, risk level and detected
\* signals, whatever the globals of the host are at each call.
C23_AnalyzeDependsOnMappingOnly ==
  ( /\ pc = "done"
    /\ op = "analyze"
    /\ prev # NoCall
    /\ prev.outcome.status = "resolved"
    /\ outcome.status = "resolved" )
  => /\ outcome.value.score = prev.outcome.value.score
     /\ outcome.value.riskLevel = prev.outcome.value.riskLevel
     /\ outcome.value.signals = prev.outcome.value.signals

(***************************************************************************)
(* Properties of sha256, under SpecHash                                    *)
(***************************************************************************)
IsLowerHex(str) ==
  \A i \in 1..Len(str) :
    CharAt(str, i) \in {"0", "1", "2", "3", "4", "5", "6", "7", "8", "9",
                        "a", "b", "c", "d", "e", "f"}

\* C24: sha256 returns a string of lowercase hexadecimal digits whose length
\* is the same for every message, with crypto.subtle and without it, and on
\* either path equal messages give equal strings.
C24_DigestFixedLengthHex ==
  (op = "sha256" /\ pc = "done") =>
    /\ IsLowerHex(outcome.value.s)
    /\ outcome.value.s # ""
    /\ prev # NoCall =>
         /\ Len(outcome.value.s) = Len(prev.outcome.value.s)
         /\ input = prev.input => outcome.value.s = prev.outcome.value.s

(***************************************************************************)
(* Properties of the collection of generate and getComponents, under Spec  *)
(***************************************************************************)
\* The collectors whose collect() has been called and has not settled
InFlight == {n \in DOMAIN task : task[n] = Pending}

\* C25: the parallel option selects the order of collection: with parallel
\* false a collector is started only once the collector before it has
\* settled, so that at most one collection is in flight at any time.
C25_SequentialWhenNotParallel ==
  (pc = "collecting" /\ ~options.parallel) =>
    /\ Cardinality(InFlight) <= 1
    /\ \A i \in 1..Len(collectors) :
         collectors[i].name \in InFlight =>
           \A j \in (i + 1)..Len(collectors) :
             \A k \in 1..Len(invoked) : invoked[k] # collectors[j].name

\* C26: whatever the order in which the collectors complete, the keys of the
\* mapping generate merges are the names of the collectors in registration
\* order followed by custom; the serialized text and the fingerprint follow
\* that order.
C26_KeysInRegistrationOrder ==
  GenerateResolved =>
    /\ [i \in 1..Len(outcome.value.components.props) |->
          outcome.value.components.props[i].k]
         = Names(collectors)
             \o (IF customAdded(options) THEN <<"custom">> ELSE <<>>)
    /\ outcome.value.fingerprint =
         sha256(safeStringify(outcome.value.components), host.crypto)

\* The collectors completed in an order that is not the registration order
C26_Witness ==
  /\ GenerateResolved
  /\ Len(order) = 3
  /\ order # Names(collectors)
  /\ HasKey(outcome.value.components, "custom")

DetectedTypes ==
  {outcome.value.signals[i].type : i \in 1..Len(outcome.value.signals)}

\* The entries of the analyzed mapping that the aggregator's hasError takes
\* for error markers
MarkedEntries == {i \in 1..Len(input.props) : hasError(input.props[i].v)}

\* C28: the engine classifies entries as the aggregator's hasError does:
\* missing_apis is detected exactly when more than one of userAgent, language
\* and screen is absent, empty or an error marker, collection_errors exactly
\* when more than 5 entries are error markers, and too_perfect is not
\* detected for a mapping that holds an error marker.
C28_EngineSharesErrorMarkers ==
  Analyzed =>
    /\ "missing_apis" \in DetectedTypes
         <=> Cardinality({api \in {"userAgent", "language", "screen"} :
                            \/ ~Truthy(Get(input, api))
                            \/ hasError(Get(input, api))}) > 1
    /\ "collection_errors" \in DetectedTypes <=> Cardinality(MarkedEntries) > 5
    /\ MarkedEntries # {} => "too_perfect" \notin DetectedTypes

(***************************************************************************)
(* Properties of the serialization of customData, under SpecCustom         *)
(***************************************************************************)
\* The key/value pairs of a mapping, without their order
Pairs(obj) == {obj.props[i] : i \in 1..Len(obj.props)}

\* C29: two generate runs with the same collector values and customData
\* mappings that hold the same key/value pairs give the same fingerprint,
\* whatever the insertion order of the customData keys.
C29_FingerprintIgnoresKeyOrder ==
  ( /\ SameValuesOtherInstance
    /\ Truthy(prev.options.customData)
    /\ Truthy(options.customData)
    /\ prev.options.allowUnstableData = options.allowUnstableData
    /\ Pairs(prev.options.customData) = Pairs(options.customData) )
  => outcome.value.fingerprint = prev.outcome.value.fingerprint

(***************************************************************************)
(* Properties of missing_apis in the analysis of generate, under Spec      *)
(***************************************************************************)
\* The expected sources that were registered and whose entry in the merged
\* mapping is empty or an error marker
CollectedAndMissing ==
  {api \in {"userAgent", "language", "screen"} :
     /\ \E i \in 1..Len(collectors) : collectors[i].name = api
     /\ \/ ~Truthy(Get(outcome.value.components, api))
        \/ MarksFailure(Get(outcome.value.components, api))}

\* C30: in the analysis generate attaches, missing_apis is detected only when
\* at least two of userAgent, language and screen were collected and came
\* back empty or as error markers: a source the caller excluded does not
\* count as missing.
C30_ExclusionIsNotMissing ==
  ( /\ GenerateResolved
    /\ options.includeSuspectAnalysis
    /\ \E i \in 1..Len(outcome.value.suspectAnalysis.signals) :
         outcome.value.suspectAnalysis.signals[i].type = "missing_apis" )
  => Cardinality(CollectedAndMissing) >= 2

====
